---- MODULE Spec2Model ----
(***************************************************************************)
(* Dynamic Smagorinsky LES model with Lagrangian averaging                 *)
(* (solvers/NSfracStep/LES/DynamicLagrangian.py): les_setup builds the     *)
(* state bundle, les_update is called once per solver time step.           *)
(*                                                                         *)
(* Discretisation of the model.  The mesh is one simplex cell: dim+1 CG1   *)
(* nodes, the nodes 1..dim forming the facet that carries the Dirichlet    *)
(* boundary condition.  Nodal fields are functions over the nodes.  Real   *)
(* numbers are fixed-point integers: Cs in units of 1/CsScale, JLM and JMM *)
(* in units of 1/JScale, nut in units of 1/CsScale (Cs unit times the      *)
(* integer units of delta^2 and |S|).  The helpers imported from           *)
(* DynamicModules and common are not part of the file; they are modelled   *)
(* from their contracts, their velocity-dependent results being drawn from *)
(* the bounded set Flows.                                                  *)
(***************************************************************************)
EXTENDS Integers, Sequences, FiniteSets, TLC

\* ---------------------------------------------------------------- bounds
MaxK == 2            \* largest recompute interval Cs_comp_step tried
MaxCalls == 2        \* les_update calls per run
MaxStart == 1        \* the solver's step counter before the first call: 0..MaxStart
CsScale == 100       \* fixed-point resolution of Cs
JScale == 1000       \* fixed-point resolution of JLM, JMM
EpsDen == 2          \* the averaging weight eps is e/EpsDen, e in 0..EpsDen-1
LBig == 5000         \* amplitude of a large Lij entry
MAmp == 10           \* amplitude of an Mij entry
SAmp == 2            \* amplitude of the strain magnitude |S|
UAmp == 3            \* amplitude of a velocity component
DeltaSq == 2         \* delta^2 at the nodes

\* ------------------------------------------------------- program constants
JLM0 == 1            \* JLM after les_setup, 1E-32: the least positive value
FilterN == 2         \* passes of the smoothing filter applied to Cs
FilterWeight == 1    \* weight of the smoothing filter applied to Cs

Dims == {2, 3}
JMM0 == 1 * JScale                   \* JMM after les_setup, 1
CsMax == (9 * CsScale) \div 100      \* clip(max=0.09)
JFloor == JLM0                       \* floor of the Lagrangian averages
NutBcVal == 0 * CsScale              \* value prescribed by the derived nut BCs

VARIABLES
    dim,           \* mesh.geometry().dim()
    Cs_comp_step,  \* DynamicSmagorinsky["Cs_comp_step"]
    tstep,         \* step index of the latest call (the counter before the first)
    ncalls,        \* les_update calls made
    mode,          \* "setup", "skip" or "full": what the latest call was
    phases,        \* the phases the latest call ran, in order
    uzero,         \* the velocity given to the latest call was identically zero
    uS,            \* |S| of the velocity given to the latest call
    CsLastFull,    \* Cs as left by the latest full-recompute (by les_setup if none)
    u_CG1, u_filtered,
    Lij, Mij, Sijcomps, Sijfcomps,
    tensdim, uiuj_pairs,
    magS,          \* |S| the latest call used for nut
    JLM, JMM,
    ratio,         \* JLM/JMM as evaluated by the latest full-recompute
    CsRaw,         \* Cs as written by set_local, before the smoothing filter
    Cs,
    nut_

vars == <<dim, Cs_comp_step, tstep, ncalls, mode, phases, uzero, uS, CsLastFull, u_CG1,
          u_filtered, Lij, Mij, Sijcomps, Sijfcomps, tensdim, uiuj_pairs,
          magS, JLM, JMM, ratio, CsRaw, Cs, nut_>>

\* ------------------------------------------------------------- the mesh
Nodes(d) == 1..(d + 1)
BcNodes(d) == 1..d
Field(d, v) == [n \in Nodes(d) |-> v]

Max(a, b) == IF a >= b THEN a ELSE b
Min(a, b) == IF a <= b THEN a ELSE b

\* f[1] + ... + f[n]
RECURSIVE SumTo(_, _)
SumTo(f, n) == IF n = 0 THEN 0 ELSE f[n] + SumTo(f, n - 1)

\* G_matr = assemble(inner(p,q)*dx) on one simplex, in units of
\* |K|/((dim+1)(dim+2)).
G_matr(d) == [i \in Nodes(d) |-> [j \in Nodes(d) |-> IF i = j THEN 2 ELSE 1]]
\* assemble(TestFunction(CG1)*dx) in the same units; G_under is its inverse.
G_lumped(d) == [i \in Nodes(d) |-> d + 2]

\* --------------------------------------------------------------- les_setup
\* tensdim and uiuj_pairs of les_setup.
Tensdim(d) == IF d = 3 THEN 6 ELSE 3
UiujPairs(d) ==
    IF d = 3
    THEN << <<0, 0>>, <<0, 1>>, <<0, 2>>, <<1, 1>>, <<1, 2>>, <<2, 2>> >>
    ELSE << <<0, 0>>, <<0, 1>>, <<1, 1>> >>

\* [Function(CG1) for i in range(dim*dim)]: the list allocated for Lij, Mij,
\* Sijcomps and Sijfcomps.
TensorAllocLen(d) == d * d
TensorAlloc(d) == [k \in 1..TensorAllocLen(d) |-> Field(d, 0)]

\* as_vector([Function(CG1) for i in range(dim)])
VectorAlloc(d) == [c \in 1..d |-> Field(d, 0)]

\* JLM = Function(CG1); JLM.vector()[:] += 1E-32
SetupJLMOne(d) == Field(d, JMM0)
SetupJLM(d) == Field(d, JLM0)

SetupJMMZero(d) == Field(d, 0)
\* JMM = Function(CG1); JMM.vector()[:] += 1
SetupJMM(d) == Field(d, JMM0)

\* Cs = Function(CG1)
SetupCs(d) == Field(d, 0)

\* ------------------------------------------------- the velocity of a step
\* What a call of les_update receives with the velocity u_ab: the kind of
\* the velocity field, and what the DynamicModules helpers derive from it,
\* within their contracts: a uniform (or zero) velocity has no strain and
\* gives Lij = Mij = 0; eps = (dt/T)/(1+dt/T) lies in [0, 1); the path lines
\* of a zero velocity do not move.
LVals == {0 - 1, 1, LBig}
Flows(d) ==
    {[kind |-> "zero", hot |-> 1, l |-> 0, m |-> 0, s |-> 0, e |-> e, up |-> 0] :
        e \in 0..(EpsDen - 1)}
    \cup
    {[kind |-> "uniform", hot |-> 1, l |-> 0, m |-> 0, s |-> 0, e |-> e, up |-> up] :
        e \in 0..(EpsDen - 1), up \in 0..1}
    \cup
    {[kind |-> "sheared", hot |-> h, l |-> l, m |-> MAmp, s |-> SAmp, e |-> e, up |-> up] :
        h \in {1, d + 1}, l \in LVals, e \in 0..(EpsDen - 1), up \in 0..1}

\* Nodal profile of a sheared flow: twice as strong at its hot node.
Profile(fl, n) == IF n = fl.hot THEN 2 ELSE 1

\* The velocity components at the nodes (LagrangeInterpolator of u_ab).
VelField(fl, d) ==
    [n \in Nodes(d) |->
        IF fl.kind = "zero" THEN 0
        ELSE IF fl.kind = "uniform" THEN UAmp
        ELSE IF n = fl.hot THEN UAmp ELSE 0]

\* |S| = sqrt(2*inner(Sij,Sij)) of the velocity, at the nodes.
MagSField(fl, d) == [n \in Nodes(d) |-> fl.s * Profile(fl, n)]

\* ------------------------------------------------------------ DynamicModules
\* One pass of the top-hat filter: (G_matr*f)*G_under, blended with f by weight.
FilterPass(f, d, weight) ==
    [i \in Nodes(d) |->
        weight * (SumTo([j \in Nodes(d) |-> G_matr(d)[i][j] * f[j]], d + 1)
                    \div G_lumped(d)[i])
        + (1 - weight) * f[i]]

\* tophatfilter(unfiltered, filtered, N, weight): N passes; N = 0 returns f.
RECURSIVE tophatfilter(_, _, _, _)
tophatfilter(f, d, N, weight) ==
    IF N = 0 THEN f ELSE tophatfilter(FilterPass(f, d, weight), d, N - 1, weight)

\* Entry k of a symmetric tensor counts once on the diagonal, twice off it.
PairWeight(pairs, k) == IF pairs[k][1] = pairs[k][2] THEN 1 ELSE 2

\* The contraction Aij:Bij at node n, over the pairs list.
tensor_inner(A, B, pairs, n) ==
    SumTo([k \in 1..Len(pairs) |-> PairWeight(pairs, k) * A[k][n] * B[k][n]],
          Len(pairs))

\* The node whose value reaches n along the path line of the step.
Upstream(fl, d, n) == IF fl.up = 0 THEN n ELSE (n % (d + 1)) + 1

\* J <- eps*AijBij + (1-eps)*J(x - dt*u), floored to stay strictly positive.
LagrangeBlend(J, AB, fl, d) ==
    [n \in Nodes(d) |->
        Max(JFloor,
            (fl.e * AB[n] + (EpsDen - fl.e) * J[Upstream(fl, d, n)]) \div EpsDen)]

\* ---------------------------------------------- the phases of les_update
\* Each phase maps the state bundle st to the bundle after it.

\* dyn_u_ops(**vars()): interpolate the velocity to CG1, then filter it.
StepDynUOps(st, fl) ==
    [st EXCEPT
        !.u_CG1 = [c \in 1..st.dim |-> VelField(fl, st.dim)],
        !.u_filtered = [c \in 1..st.dim |->
                          tophatfilter(VelField(fl, st.dim), st.dim, 1, 1)],
        !.phases = Append(@, "dyn_u_ops")]

\* compute_Lij(u=u_CG1, uf=u_filtered, **vars())
StepLij(st, fl) ==
    [st EXCEPT
        !.Lij = [k \in 1..Len(st.Lij) |->
                    IF k <= st.tensdim
                    THEN [n \in Nodes(st.dim) |->
                            IF fl.kind = "sheared" THEN fl.l * Profile(fl, n) ELSE 0]
                    ELSE st.Lij[k]],
        !.phases = Append(@, "compute_Lij")]

\* magS = compute_Mij(alphaval=alpha, u_nf=u_CG1, u_f=u_filtered, **vars())
StepMij(st, fl) ==
    [st EXCEPT
        !.Sijcomps = [k \in 1..Len(st.Sijcomps) |->
                        IF k <= st.tensdim THEN MagSField(fl, st.dim)
                        ELSE st.Sijcomps[k]],
        !.Sijfcomps = [k \in 1..Len(st.Sijfcomps) |->
                        IF k <= st.tensdim
                        THEN tophatfilter(MagSField(fl, st.dim), st.dim, 1, 1)
                        ELSE st.Sijfcomps[k]],
        !.Mij = [k \in 1..Len(st.Mij) |->
                    IF k <= st.tensdim
                    THEN [n \in Nodes(st.dim) |->
                            IF fl.kind = "sheared" THEN fl.m * Profile(fl, n) ELSE 0]
                    ELSE st.Mij[k]],
        !.magS = MagSField(fl, st.dim),
        !.phases = Append(@, "compute_Mij")]

\* lagrange_average(J1=JLM, J2=JMM, Aij=Lij, Bij=Mij, **vars())
StepLagrange(st, fl) ==
    LET LM == [n \in Nodes(st.dim) |-> tensor_inner(st.Lij, st.Mij, st.pairs, n)]
        MM == [n \in Nodes(st.dim) |-> tensor_inner(st.Mij, st.Mij, st.pairs, n)]
    IN [st EXCEPT
        !.JLM = LagrangeBlend(st.JLM, LM, fl, st.dim),
        !.JMM = LagrangeBlend(st.JMM, MM, fl, st.dim),
        !.phases = Append(@, "lagrange_average")]

\* JLM.vector().array()/JMM.vector().array() at one node
CsRatio(jlm, jmm) == (jlm * CsScale) \div jmm

ClipCsNone(x) == x
\* .clip(max=0.09)
ClipCs(x) == Min(x, CsMax)

\* The division inside Cs.vector().set_local(...)
StepCsRatio(st) ==
    [st EXCEPT
        !.ratio = [n \in Nodes(st.dim) |-> CsRatio(st.JLM[n], st.JMM[n])],
        !.phases = Append(@, "Cs_update")]

\* The clip, and the write of the clipped values to Cs
StepClip(st) ==
    [st EXCEPT
        !.CsRaw = [n \in Nodes(st.dim) |-> ClipCs(st.ratio[n])],
        !.Cs = [n \in Nodes(st.dim) |-> ClipCs(st.ratio[n])],
        !.phases = Append(@, "clip")]

\* tophatfilter(unfiltered=Cs, filtered=Cs, N=2, weight=1., **vars())
StepSmooth(st) ==
    [st EXCEPT
        !.Cs = tophatfilter(st.Cs, st.dim, FilterN, FilterWeight),
        !.phases = Append(@, "tophatfilter")]

\* nut_form = Cs * delta**2 * magS, at one node
NutForm(cs, d2, s) == cs * d2 * s

\* Cs.vector().array() * delta_CG1_sq.vector().array() * magS, at one node
NutNodal(cs, d2, s) == cs * d2 * s

\* nut_.vector().set_local(...)
StepNut(st) ==
    [st EXCEPT
        !.nut = [n \in Nodes(st.dim) |-> NutNodal(st.Cs[n], DeltaSq, st.magS[n])],
        !.phases = Append(@, "nut")]

\* [bc.apply(nut_.vector()) for bc in nut_.bcs]
ApplyBcs(nut, d) ==
    [n \in Nodes(d) |-> IF n \in BcNodes(d) THEN NutBcVal ELSE nut[n]]

StepBcs(st) ==
    [st EXCEPT !.nut = ApplyBcs(st.nut, st.dim), !.phases = Append(@, "bcs")]

\* nut_(): project nut_form with the current Cs and velocity, apply the BCs.
NutRefresh(st, fl) ==
    [st EXCEPT
        !.nut = ApplyBcs([n \in Nodes(st.dim) |->
                            NutForm(st.Cs[n], DeltaSq, MagSField(fl, st.dim)[n])],
                         st.dim),
        !.phases = Append(@, "nut_refresh")]

IsSkipShifted(t, K) == (t + 1) % K # 0
\* tstep%DynamicSmagorinsky["Cs_comp_step"] != 0
IsSkip(t, K) == t % K # 0

LesSkipNoRefresh(st, fl) == [st EXCEPT !.phases = Append(@, "nut_refresh")]
\* The skip-step branch of les_update: nut_(); return
LesSkip(st, fl) == NutRefresh(st, fl)

\* Interpolation, Lij, Mij and the Lagrangian average: lines 114-125.
LesFullAverages(st, fl) ==
    LET s1 == StepDynUOps(st, fl)
        s2 == StepLij(s1, fl)
        s3 == StepMij(s2, fl)
    IN StepLagrange(s3, fl)

LesFullSmoothFirst(st, fl) ==
    LET s4 == LesFullAverages(st, fl)
        s5 == StepCsRatio(s4)
        s6 == StepSmooth(s5)
        s7 == StepClip(s6)
        s8 == StepNut(s7)
    IN StepBcs(s8)
LesFullBcsFirst(st, fl) ==
    LET s4 == LesFullAverages(st, fl)
        s5 == StepCsRatio(s4)
        s6 == StepClip(s5)
        s7 == StepSmooth(s6)
        s8 == StepBcs(s7)
    IN StepNut(s8)
\* The full-recompute branch of les_update, top to bottom.
LesFull(st, fl) ==
    LET s4 == LesFullAverages(st, fl)
        s5 == StepCsRatio(s4)
        s6 == StepClip(s5)
        s7 == StepSmooth(s6)
        s8 == StepNut(s7)
    IN StepBcs(s8)

\* ------------------------------------------------------------ the machine
\* The bundle les_update receives, its phase record empty.
Bundle ==
    [dim |-> dim, tensdim |-> tensdim, pairs |-> uiuj_pairs,
     u_CG1 |-> u_CG1, u_filtered |-> u_filtered,
     Lij |-> Lij, Mij |-> Mij, Sijcomps |-> Sijcomps, Sijfcomps |-> Sijfcomps,
     magS |-> magS, JLM |-> JLM, JMM |-> JMM, ratio |-> ratio,
     CsRaw |-> CsRaw, Cs |-> Cs, nut |-> nut_, phases |-> << >>]

\* The bundle after the call is written back to the state.
Store(r) ==
    /\ u_CG1' = r.u_CG1 /\ u_filtered' = r.u_filtered
    /\ Lij' = r.Lij /\ Mij' = r.Mij
    /\ Sijcomps' = r.Sijcomps /\ Sijfcomps' = r.Sijfcomps
    /\ magS' = r.magS /\ JLM' = r.JLM /\ JMM' = r.JMM
    /\ ratio' = r.ratio /\ CsRaw' = r.CsRaw /\ Cs' = r.Cs
    /\ nut_' = r.nut /\ phases' = r.phases

\* The state les_setup returns.
Init ==
    /\ dim \in Dims
    /\ Cs_comp_step \in 1..MaxK
    /\ tstep \in 0..MaxStart
    /\ ncalls = 0
    /\ mode = "setup"
    /\ phases = << >>
    /\ uzero = FALSE
    /\ uS = Field(dim, 0)
    /\ CsLastFull = SetupCs(dim)
    /\ u_CG1 = VectorAlloc(dim)
    /\ u_filtered = VectorAlloc(dim)
    /\ Lij = TensorAlloc(dim)
    /\ Mij = TensorAlloc(dim)
    /\ Sijcomps = TensorAlloc(dim)
    /\ Sijfcomps = TensorAlloc(dim)
    /\ tensdim = Tensdim(dim)
    /\ uiuj_pairs = UiujPairs(dim)
    /\ magS = Field(dim, 0)
    /\ JLM = SetupJLM(dim)
    /\ JMM = SetupJMM(dim)
    /\ ratio = Field(dim, 0)
    /\ CsRaw = SetupCs(dim)
    /\ Cs = SetupCs(dim)
    /\ nut_ = Field(dim, 0)

\* A call of les_update on a step where Cs is not computed.
LesUpdateSkip ==
    /\ ncalls < MaxCalls
    /\ IsSkip(tstep + 1, Cs_comp_step)
    /\ \E fl \in Flows(dim) : \E r \in {LesSkip(Bundle, fl)} :
        /\ Store(r)
        /\ uzero' = (fl.kind = "zero")
        /\ uS' = MagSField(fl, dim)
    /\ tstep' = tstep + 1
    /\ ncalls' = ncalls + 1
    /\ mode' = "skip"
    /\ UNCHANGED <<dim, Cs_comp_step, tensdim, uiuj_pairs, CsLastFull>>

\* A call of les_update on a step where Cs is computed.
LesUpdateFull ==
    /\ ncalls < MaxCalls
    /\ ~IsSkip(tstep + 1, Cs_comp_step)
    /\ \E fl \in Flows(dim) : \E r \in {LesFull(Bundle, fl)} :
        /\ Store(r)
        /\ uzero' = (fl.kind = "zero")
        /\ uS' = MagSField(fl, dim)
        /\ CsLastFull' = r.Cs
    /\ tstep' = tstep + 1
    /\ ncalls' = ncalls + 1
    /\ mode' = "full"
    /\ UNCHANGED <<dim, Cs_comp_step, tensdim, uiuj_pairs>>

Next == LesUpdateSkip \/ LesUpdateFull

Spec == Init /\ [][Next]_vars

\* ================================================================ properties
Interior(d) == Nodes(d) \ BcNodes(d)

\* Largest k with k*k <= x.
ISqrt(x) == CHOOSE k \in 0..x : k * k <= x /\ x < (k + 1) * (k + 1)

\* sqrt(r) clipped to the ceiling, for a ratio r in units of 1/CsScale.
ClippedSqrt(r) ==
    IF r >= CsMax * CsMax THEN CsMax ELSE Min(CsMax, ISqrt(r * CsScale))

\* The phases of a full-recompute, in the order of the coordinator.
FullPhases ==
    << "dyn_u_ops", "compute_Lij", "compute_Mij", "lagrange_average",
       "Cs_update", "clip", "tophatfilter", "nut", "bcs" >>

\* C1: a call whose step index is not divisible by the recompute interval
\* leaves Cs, JLM and JMM exactly as they were, whatever calls came before.
C1_SkipLeavesAverages ==
    [][(ncalls' = ncalls + 1 /\ tstep' % Cs_comp_step # 0)
        => (Cs' = Cs /\ JLM' = JLM /\ JMM' = JMM)]_vars

\* A skip-step has run after a full-recompute that moved Cs, JLM and JMM.
C1_Witness ==
    /\ mode = "skip" /\ ncalls = 2
    /\ \E n \in Nodes(dim) : Cs[n] > 0 /\ JLM[n] > JLM0 /\ JMM[n] # JMM0

\* C2: the stored Cs, the factor of delta^2 and |S| in nut, never exceeds the
\* ceiling 0.09 at any node, after a full-recompute and in later skip-steps.
C2_CsBelowCeiling == \A n \in Nodes(dim) : Cs[n] <= CsMax

\* A skip-step after a full-recompute whose ratio JLM/JMM was at least 100.
C2_Witness ==
    /\ mode = "skip"
    /\ \E n \in Nodes(dim) :
        ratio[n] >= 100 * CsScale /\ JMM[n] > 0 /\ Cs[n] = CsMax

\* C3: JMM is strictly positive at every node in every reachable state.
C3_JMMPositive == \A n \in Nodes(dim) : JMM[n] > 0

\* A full-recompute has lowered JMM below its initial value.
C3_Witness ==
    mode = "full" /\ \E n \in Nodes(dim) : JMM[n] < JMM0 /\ JMM[n] > 0

\* C4: the value a full-recompute writes to Cs before smoothing is
\* sqrt(JLM/JMM) of the updated averages, clipped to 0.09.
C4_CsIsClippedSqrt ==
    mode = "full" => \A n \in Nodes(dim) : CsRaw[n] = ClippedSqrt(ratio[n])

\* C5: after a call, nut is the square of the stored Cs times delta^2 times
\* |S| wherever no boundary condition overrides it, in both branches.
C5_NutUsesCsSquared ==
    mode # "setup" =>
        \A n \in Interior(dim) :
            nut_[n] * CsScale = Cs[n] * Cs[n] * DeltaSq * uS[n]

C7_NutMeetsBcs ==
    mode = "full" => \A n \in BcNodes(dim) : nut_[n] = NutBcVal

\* A full-recompute where Cs*delta^2*|S| differs from the prescribed value at
\* a boundary node.
C7_Witness ==
    /\ mode = "full"
    /\ \E n \in BcNodes(dim) : Cs[n] * DeltaSq * magS[n] # NutBcVal

\* C8: from the state of les_setup, one full-recompute on a zero velocity
\* gives Cs = 0 (to the resolution of Cs) and nut = 0 at every node, JLM and
\* JMM bounded by their initial values and JMM > 0.
C8_ZeroVelocity ==
    (ncalls = 1 /\ mode = "full" /\ uzero) =>
        \A n \in Nodes(dim) :
            /\ Cs[n] = 0
            /\ nut_[n] = 0
            /\ JLM[n] = JLM0
            /\ JMM[n] > 0 /\ JMM[n] <= JMM0

\* The first call was a full-recompute on a zero velocity and moved JMM.
C8_Witness ==
    /\ ncalls = 1 /\ mode = "full" /\ uzero
    /\ \E n \in Nodes(dim) : JMM[n] < JMM0

\* C9: after every call nut is the refresh of that call: the prescribed value
\* on the boundary, and elsewhere Cs*delta^2*|S| with the |S| of the call's
\* velocity and the Cs left by the latest full-recompute (by les_setup if none).
C9_NutFromLastCs ==
    mode # "setup" =>
        /\ Cs = CsLastFull
        /\ \A n \in Nodes(dim) :
            nut_[n] = IF n \in BcNodes(dim) THEN NutBcVal
                      ELSE CsLastFull[n] * DeltaSq * uS[n]

\* A skip-step refreshed nut from the non-zero Cs of an earlier full-recompute.
C9_Witness ==
    /\ mode = "skip" /\ ncalls = 2
    /\ \E n \in Interior(dim) : CsLastFull[n] > 0 /\ uS[n] > 0 /\ nut_[n] > 0

\* The index pairs (i, j), 0 <= i <= j < d.
UpperPairs(d) == {p \in (0..(d - 1)) \X (0..(d - 1)) : p[1] <= p[2]}

\* C10: tensdim is 3 in 2-D and 6 in 3-D, uiuj_pairs lists every pair (i, j)
\* with 0 <= i <= j < dim once, in row-major order, and Lij, Mij, Sijcomps,
\* Sijfcomps each hold exactly tensdim nodal fields.
C10_TensorLayout ==
    /\ tensdim = (IF dim = 2 THEN 3 ELSE 6)
    /\ Len(uiuj_pairs) = tensdim
    /\ {uiuj_pairs[k] : k \in 1..Len(uiuj_pairs)} = UpperPairs(dim)
    /\ \A a, b \in 1..Len(uiuj_pairs) :
        a < b => \/ uiuj_pairs[a][1] < uiuj_pairs[b][1]
                 \/ /\ uiuj_pairs[a][1] = uiuj_pairs[b][1]
                    /\ uiuj_pairs[a][2] < uiuj_pairs[b][2]
    /\ Len(Lij) = tensdim /\ Len(Mij) = tensdim
    /\ Len(Sijcomps) = tensdim /\ Len(Sijfcomps) = tensdim
====
